---------------------------- MODULE Spec2Model ----------------------------
(***************************************************************************)
(* Model of main.py: the tool registry TOOLS, the two lookup functions     *)
(* get_weather_forecast (with get_coordinates and get_forecast) and        *)
(* get_ip_address, and the dispatcher process_weather_query.               *)
(*                                                                         *)
(* One behaviour is one call of process_weather_query.  The external       *)
(* collaborators (the model provider, the geocoder, api.weather.gov, DNS)  *)
(* answer nondeterministically from bounded sets of outcomes.              *)
(*                                                                         *)
(* A Python str is a sequence of pieces (the literal parts of an f-string  *)
(* and the rendered values), so concatenation is \o and a result can be    *)
(* taken apart again.  A Python value that may be None is a record         *)
(* [t, v] with t = "None" or t = "str".                                    *)
(***************************************************************************)
EXTENDS Integers, Sequences, FiniteSets, TLC

VARIABLES
    pc,             \* position in process_weather_query
    query,          \* the argument of process_weather_query
    calls,          \* the external calls made so far, in order
    response,       \* what openai.chat.completions.create returned
    tool_call,      \* response.choices[0].message.tool_calls[0]
    function_name,  \* tool_call.function.name
    function_args,  \* json.loads(tool_call.function.arguments)
    invoked,        \* the local lookup functions called, with their arguments
    location,       \* the geocoder's answer
    coords,         \* get_coordinates' return value
    point_response, \* the answer to the grid-point request
    forecast,       \* get_forecast's return value
    printed,        \* what get_forecast printed
    tool_outcome,   \* how the local lookup function ended
    tool_return,    \* the local lookup function's return value
    exc,            \* the exception in flight or caught
    result,         \* process_weather_query's result
    outcome         \* how process_weather_query ended

vars == <<pc, query, calls, response, tool_call, function_name, function_args,
          invoked, location, coords, point_response, forecast, printed, tool_outcome,
          tool_return, exc, result, outcome>>

-----------------------------------------------------------------------------
(* Bounds *)

MaxToolCalls == 2   \* longest tool_calls list the model provider returns
MaxPeriods == 4     \* longest list of forecast periods the upstream returns

-----------------------------------------------------------------------------
(* Python values *)

None == [t |-> "None", v |-> <<>>]
Str(s) == [t |-> "str", v |-> s]

Min(a, b) == IF a < b THEN a ELSE b

\* An exception: its class and what str(e) renders.
Exception(type, msg) == [type |-> type, msg |-> msg]
NoException == Exception("", <<>>)

\* str(KeyError(key)) is the repr of the key.
KeyError(key) == Exception("KeyError", <<"'", key, "'">>)

-----------------------------------------------------------------------------
(* The tool registry *)

TOOLS == <<
    [name |-> "get_weather_forecast", required |-> <<"city", "state">>],
    [name |-> "get_ip_address", required |-> <<"hostname">>] >>

-----------------------------------------------------------------------------
(* json.loads on a token sequence.  A token is punctuation or a string     *)
(* literal; the payloads the model provider sends are flat: an object of   *)
(* string members, an array of strings, or a bare string.                  *)

P(c) == [k |-> "p", s |-> c]
S(x) == [k |-> "s", s |-> x]

EmptyDict == [key \in {} |-> ""]

JsonValue(t, d) == [ok |-> TRUE, t |-> t, d |-> d, err |-> NoException]
JsonError(msg) ==
    [ok |-> FALSE, t |-> "", d |-> EmptyDict,
     err |-> Exception("JSONDecodeError", <<msg>>)]

IsStr(toks, i) == i <= Len(toks) /\ toks[i].k = "s"
IsP(toks, i, c) == i <= Len(toks) /\ toks[i] = P(c)

\* Members of an object from position i on, i being where a key is expected;
\* a repeated key keeps its last value.
RECURSIVE ParseMembers(_, _, _)
ParseMembers(toks, i, acc) ==
    IF ~IsStr(toks, i)
    THEN JsonError("Expecting property name enclosed in double quotes")
    ELSE IF ~IsP(toks, i + 1, ":")
    THEN JsonError("Expecting ':' delimiter")
    ELSE IF ~IsStr(toks, i + 2)
    THEN JsonError("Expecting value")
    ELSE LET d == (toks[i].s :> toks[i + 2].s) @@ acc IN
         IF IsP(toks, i + 3, "}")
         THEN IF i + 3 = Len(toks) THEN JsonValue("dict", d)
              ELSE JsonError("Extra data")
         ELSE IF IsP(toks, i + 3, ",") THEN ParseMembers(toks, i + 4, d)
         ELSE JsonError("Expecting ',' delimiter")

\* Elements of an array from position i on; the elements are not kept, a
\* list is only ever subscripted with a str.
RECURSIVE ParseElements(_, _)
ParseElements(toks, i) ==
    IF ~IsStr(toks, i) THEN JsonError("Expecting value")
    ELSE IF IsP(toks, i + 1, "]")
    THEN IF i + 1 = Len(toks) THEN JsonValue("list", EmptyDict)
         ELSE JsonError("Extra data")
    ELSE IF IsP(toks, i + 1, ",") THEN ParseElements(toks, i + 2)
    ELSE JsonError("Expecting ',' delimiter")

json_loads(toks) ==
    IF Len(toks) = 0 THEN JsonError("Expecting value")
    ELSE IF IsStr(toks, 1)
    THEN IF Len(toks) = 1 THEN JsonValue("str", EmptyDict)
         ELSE JsonError("Extra data")
    ELSE IF IsP(toks, 1, "{")
    THEN IF IsP(toks, 2, "}")
         THEN IF Len(toks) = 2 THEN JsonValue("dict", EmptyDict)
              ELSE JsonError("Extra data")
         ELSE ParseMembers(toks, 2, EmptyDict)
    ELSE IF IsP(toks, 1, "[")
    THEN IF IsP(toks, 2, "]")
         THEN IF Len(toks) = 2 THEN JsonValue("list", EmptyDict)
              ELSE JsonError("Extra data")
         ELSE ParseElements(toks, 2)
    ELSE JsonError("Expecting value")

\* A faulty variant of Subscript: args.get(key, ""), which hides a missing key.
SubscriptOrDefault(args, key) ==
    IF args.t = "dict"
    THEN [ok |-> TRUE, err |-> NoException,
          val |-> IF key \in DOMAIN args.d THEN args.d[key] ELSE ""]
    ELSE [ok |-> FALSE, val |-> "",
          err |-> Exception("AttributeError", <<"object has no attribute 'get'">>)]

\* args[key] for a parsed payload args and a str key.
Subscript(args, key) ==
    IF args.t = "dict"
    THEN IF key \in DOMAIN args.d
         THEN [ok |-> TRUE, val |-> args.d[key], err |-> NoException]
         ELSE [ok |-> FALSE, val |-> "", err |-> KeyError(key)]
    ELSE IF args.t = "list"
    THEN [ok |-> FALSE, val |-> "",
          err |-> Exception("TypeError",
                     <<"list indices must be integers or slices, not str">>)]
    ELSE [ok |-> FALSE, val |-> "",
          err |-> Exception("TypeError",
                     <<"string indices must be integers, not 'str'">>)]

-----------------------------------------------------------------------------
(* What the collaborators can answer *)

Queries == {"Say hello", "What's the weather like in Seattle, Washington?"}

\* Argument payloads of a tool call, as the model provider writes them.
SeattleWA ==
    <<P("{"), S("city"), P(":"), S("Seattle"), P(","),
      S("state"), P(":"), S("WA"), P("}")>>
NowherevilleZZ ==
    <<P("{"), S("state"), P(":"), S("ZZ"), P(","),
      S("city"), P(":"), S("Nowhereville"), P("}")>>
Localhost == <<P("{"), S("hostname"), P(":"), S("localhost"), P("}")>>
CityOnly == <<P("{"), S("city"), P(":"), S("Seattle"), P("}")>>
StateOnly == <<P("{"), S("state"), P(":"), S("WA"), P("}")>>
EmptyObject == <<P("{"), P("}")>>
Truncated == <<P("{"), S("city"), P(":"), S("Seattle"), P(",")>>
EmptyText == <<>>
ArrayPayload == <<P("["), S("Seattle"), P(","), S("WA"), P("]")>>

Payloads ==
    {SeattleWA, NowherevilleZZ, Localhost, CityOnly, StateOnly, EmptyObject,
     Truncated, EmptyText, ArrayPayload}

\* The names the model provider may put in a tool call; the last one is not
\* in the registry.
ToolNames == {"get_weather_forecast", "get_ip_address", "get_time"}

ToolCalls == [name : ToolNames, arguments : Payloads]

\* message.tool_calls: None or a list.
NoToolCalls == [none |-> TRUE, items |-> <<>>]
ToolCallLists ==
    {NoToolCalls} \cup
    UNION {{[none |-> FALSE, items |-> l] : l \in [1..n -> ToolCalls]} :
           n \in 0..MaxToolCalls}

Contents == {None, Str(<<>>), Str(<<"Hello! How can I assist you today?">>)}

Messages == [content : Contents, tool_calls : ToolCallLists]

\* A completion: its list of choices, each reduced to its message.
NoResponse == [received |-> FALSE, choices |-> <<>>]
ModelResponses ==
    {[received |-> TRUE, choices |-> <<>>]} \cup
    {[received |-> TRUE, choices |-> <<m>>] : m \in Messages}

ModelErrors ==
    {Exception("APIConnectionError", <<"Connection error.">>),
     Exception("AuthenticationError", <<"Error code: 401">>)}

\* geolocator.geocode: a Location, None, or an exception.
Location(t, latitude, longitude, error) ==
    [t |-> t, latitude |-> latitude, longitude |-> longitude, error |-> error]
NoLocation == Location("unset", 0, 0, NoException)
GeocodeOutcomes ==
    {Location("Location", 47, -122, NoException),
     Location("None", 0, 0, NoException),
     Location("error", 0, 0,
              Exception("GeocoderTimedOut", <<"Service timed out">>))}

ForecastUrl == "https://api.weather.gov/gridpoints/SEW/124,67/forecast"

\* requests.get on the grid-point URL: an exception, or a response with a
\* status code and a body that is JSON or not; the JSON body may lack
\* "properties" or the "forecast" under it.
PointResponse(error, status, json, props, url) ==
    [error |-> error, status_code |-> status, is_json |-> json,
     has_properties |-> props, has_forecast |-> url]
NoPointResponse == PointResponse(NoException, 0, FALSE, FALSE, FALSE)
PointOutcomes ==
    {PointResponse(Exception("ConnectionError", <<"Max retries exceeded">>),
                   0, FALSE, FALSE, FALSE),
     PointResponse(NoException, 404, TRUE, FALSE, FALSE),
     PointResponse(NoException, 500, FALSE, FALSE, FALSE),
     PointResponse(NoException, 200, FALSE, FALSE, FALSE),
     PointResponse(NoException, 200, TRUE, FALSE, FALSE),
     PointResponse(NoException, 200, TRUE, TRUE, FALSE),
     PointResponse(NoException, 200, TRUE, TRUE, TRUE)}

\* The i-th forecast period the upstream lists.
PeriodNames == <<"Tonight", "Tuesday", "Tuesday Night", "Wednesday">>
PeriodFields ==
    <<"name", "temperature", "temperatureUnit", "shortForecast", "windSpeed",
      "windDirection">>
Period(i) ==
    [name |-> PeriodNames[((i - 1) % Len(PeriodNames)) + 1],
     temperature |-> 50 - 7 * i,
     temperatureUnit |-> IF i % 2 = 0 THEN "C" ELSE "F",
     shortForecast |-> IF i % 2 = 0 THEN "Rain" ELSE "Mostly Cloudy",
     windSpeed |-> IF i < 3 THEN "5 mph" ELSE "5 to 10 mph",
     windDirection |-> IF i % 2 = 0 THEN "SW" ELSE "N"]

Without(period, field) ==
    [f \in (DOMAIN period) \ {field} |-> period[f]]

\* The period lists: n periods, all complete or one of them lacking the
\* first or the last field that is rendered.
PeriodLists ==
    {[i \in 1..n |-> Period(i)] : n \in 0..MaxPeriods} \cup
    UNION {{[i \in 1..n |-> IF i = k THEN Without(Period(i), f) ELSE Period(i)] :
            k \in 1..n, f \in {"name", "windDirection"}} : n \in 1..MaxPeriods}

\* get_forecast's return value: None or the forecast JSON, a dict that is
\* empty, lacks "properties", lacks "periods" under it, or has the periods.
ForecastDict(kind, periods) == [t |-> "dict", kind |-> kind, periods |-> periods]
NoForecast == [t |-> "unset", kind |-> "", periods |-> <<>>]
NoneForecast == [t |-> "None", kind |-> "", periods |-> <<>>]
ForecastBodies ==
    {ForecastDict("empty", <<>>), ForecastDict("no_properties", <<>>),
     ForecastDict("no_periods", <<>>)} \cup
    {ForecastDict("periods", ps) : ps \in PeriodLists}

\* requests.get on the forecast URL.
ForecastResponse(error, status, json, body) ==
    [error |-> error, status_code |-> status, is_json |-> json, body |-> body]
ForecastOutcomes ==
    {ForecastResponse(Exception("ConnectionError", <<"Max retries exceeded">>),
                      0, FALSE, NoneForecast),
     ForecastResponse(NoException, 503, FALSE, NoneForecast),
     ForecastResponse(NoException, 200, FALSE, NoneForecast)} \cup
    {ForecastResponse(NoException, 200, TRUE, b) : b \in ForecastBodies}

\* socket.gethostbyname: an address or an exception.
DnsOutcomes ==
    {[error |-> NoException, ip_address |-> "127.0.0.1"],
     [error |-> Exception("gaierror", <<"[Errno -2] Name or service not known">>),
      ip_address |-> ""]}

-----------------------------------------------------------------------------
(* The lookup functions *)

Call(svc, arg) == [svc |-> svc, arg |-> arg]

\* A faulty variant of RecordCall: the request is sent again, as a retrying
\* client would after a failure.
RecordCallWithRetry(log, svc, arg) ==
    Append(Append(log, Call(svc, arg)), Call(svc, arg))

\* One external call is made where the code makes one.
RecordCall(log, svc, arg) == Append(log, Call(svc, arg))

\* get_coordinates: the dict of the Location's coordinates, or None.
NoCoordinates == [t |-> "unset", latitude |-> 0, longitude |-> 0]
NoneCoordinates == [t |-> "None", latitude |-> 0, longitude |-> 0]
\* A faulty variant of Coordinates: no match falls back to the origin.
CoordinatesOrOrigin(loc) ==
    [t |-> "dict", latitude |-> loc.latitude, longitude |-> loc.longitude]

Coordinates(loc) ==
    IF loc.t = "Location"
    THEN [t |-> "dict", latitude |-> loc.latitude, longitude |-> loc.longitude]
    ELSE NoneCoordinates

CouldNotFindCoordinates(city, state) ==
    <<"Could not find coordinates for ", city, ", ", state>>

CouldNotGetForecast(city, state) ==
    <<"Could not get forecast for ", city, ", ", state>>

\* What the try block of get_forecast raises on the grid-point answer, if
\* anything: requests.get, raise_for_status, json(), the two subscripts.
PointError(p) ==
    IF p.error # NoException THEN p.error
    ELSE IF p.status_code >= 400 /\ p.status_code < 600
    THEN Exception("HTTPError", <<ToString(p.status_code), " Error">>)
    ELSE IF ~p.is_json
    THEN Exception("JSONDecodeError", <<"Expecting value">>)
    ELSE IF ~p.has_properties THEN KeyError("properties")
    ELSE IF ~p.has_forecast THEN KeyError("forecast")
    ELSE NoException

\* The same for the forecast answer: requests.get, raise_for_status, json().
ForecastError(f) ==
    IF f.error # NoException THEN f.error
    ELSE IF f.status_code >= 400 /\ f.status_code < 600
    THEN Exception("HTTPError", <<ToString(f.status_code), " Error">>)
    ELSE IF ~f.is_json
    THEN Exception("JSONDecodeError", <<"Expecting value">>)
    ELSE NoException

\* bool(forecast): None and the empty dict are falsy.
Truthy(f) == f.t = "dict" /\ f.kind # "empty"

PeriodLimit == 3

\* A faulty variant of FirstPeriods: the slice is dropped.
AllPeriods(periods) == periods

\* forecast["properties"]["periods"][:3]
FirstPeriods(periods) == SubSeq(periods, 1, Min(PeriodLimit, Len(periods)))

DegreeSign == "Â°"

\* The block of one period; the fields are read in this order and the first
\* one missing is the KeyError.
PeriodBlock(period) ==
    LET missing == {i \in 1..Len(PeriodFields) :
                        PeriodFields[i] \notin DOMAIN period} IN
    IF missing # {}
    THEN [ok |-> FALSE, val |-> <<>>,
          err |-> KeyError(PeriodFields[CHOOSE i \in missing :
                                            \A j \in missing : i <= j])]
    ELSE [ok |-> TRUE, err |-> NoException,
          val |-> <<period["name"], ":\n",
                    "Temperature: ", ToString(period["temperature"]),
                    DegreeSign, period["temperatureUnit"], "\n",
                    "Conditions: ", period["shortForecast"], "\n",
                    "Wind: ", period["windSpeed"], " ",
                    period["windDirection"], "\n\n">>]

\* The for loop over the periods, from the i-th on, response being the text
\* so far.
RECURSIVE FormatPeriods(_, _, _)
FormatPeriods(periods, i, text) ==
    IF i > Len(periods)
    THEN [ok |-> TRUE, val |-> text, err |-> NoException]
    ELSE LET b == PeriodBlock(periods[i]) IN
         IF b.ok THEN FormatPeriods(periods, i + 1, text \o b.val)
         ELSE b

\* Lines 93-105 of get_weather_forecast, for a truthy forecast.
FormatForecast(city, state, f) ==
    IF f.kind = "no_properties"
    THEN [ok |-> FALSE, val |-> <<>>, err |-> KeyError("properties")]
    ELSE IF f.kind = "no_periods"
    THEN [ok |-> FALSE, val |-> <<>>, err |-> KeyError("periods")]
    ELSE FormatPeriods(FirstPeriods(f.periods), 1,
                       <<"Weather forecast for ", city, ", ", state, ":\n\n">>)

-----------------------------------------------------------------------------
(* The dispatcher's decisions *)

\* bool(message.tool_calls): None and the empty list are falsy.
HasToolCalls(message) ==
    ~message.tool_calls.none /\ Len(message.tool_calls.items) > 0

\* A faulty variant of FirstToolCall: message.tool_calls[-1]
LastToolCall(items) == items[Len(items)]

\* message.tool_calls[0]
FirstToolCall(items) == items[1]

\* A faulty variant of DirectReply: message.content or ""
DirectReplyOrEmpty(message) ==
    IF message.content = None THEN Str(<<>>) ELSE message.content

\* message.content, as it is
DirectReply(message) == message.content

\* A faulty variant of UnknownFunction: the name is left out.
UnknownFunctionUnnamed(name) == <<"Unknown function">>

UnknownFunction(name) == <<"Unknown function: ", name>>

\* except Exception: the classes it catches.
ExceptionClasses ==
    {"APIConnectionError", "AuthenticationError", "IndexError",
     "JSONDecodeError", "KeyError", "TypeError", "GeocoderTimedOut",
     "ConnectionError", "HTTPError", "gaierror"}
\* A faulty variant of Caught: except json.JSONDecodeError
CaughtDecodeErrorOnly(e) == e.type = "JSONDecodeError"

Caught(e) == e.type \in ExceptionClasses

ErrorProcessing(e) == <<"Error processing weather query: ">> \o e.msg

NoToolCall == [name |-> "", arguments |-> <<>>]
NoArguments == JsonValue("unset", EmptyDict)
Unset == [t |-> "unset", v |-> <<>>]

\* The keyword arguments of the lookup function that was called.
kwargs == invoked[Len(invoked)].kwargs

-----------------------------------------------------------------------------
(* process_weather_query, step by step *)

Init ==
    /\ pc = "start"
    /\ query \in Queries
    /\ calls = <<>>
    /\ response = NoResponse
    /\ tool_call = NoToolCall
    /\ function_name = ""
    /\ function_args = NoArguments
    /\ invoked = <<>>
    /\ location = NoLocation
    /\ coords = NoCoordinates
    /\ point_response = NoPointResponse
    /\ forecast = NoForecast
    /\ printed = <<>>
    /\ tool_outcome = "not called"
    /\ tool_return = Unset
    /\ exc = NoException
    /\ result = Unset
    /\ outcome = "running"

\* An exception reaches the except clause of process_weather_query.
Raise(e) ==
    /\ exc' = e
    /\ pc' = "except"

\* The lookup function returns s, which becomes the result.
ToolReturns(s) ==
    /\ tool_outcome' = "returned"
    /\ tool_return' = Str(s)
    /\ result' = Str(s)
    /\ pc' = "return"

\* The lookup function raises e to process_weather_query.
ToolRaises(e) ==
    /\ tool_outcome' = "raised"
    /\ Raise(e)

\* openai.chat.completions.create(...)
openai_create ==
    /\ pc = "start"
    /\ calls' = RecordCall(calls, "openai", <<query>>)
    /\ \/ \E e \in ModelErrors :
            /\ Raise(e)
            /\ UNCHANGED response
       \/ \E r \in ModelResponses :
            /\ response' = r
            /\ pc' = "tool_calls"
            /\ UNCHANGED exc
    /\ UNCHANGED <<query, tool_call, function_name, function_args, invoked,
                   location, coords, point_response, forecast, printed, tool_outcome,
                   tool_return, result, outcome>>

\* if response.choices[0].message.tool_calls: ... else: result = content
check_tool_calls ==
    /\ pc = "tool_calls"
    /\ IF response.choices = <<>>
       THEN /\ Raise(Exception("IndexError", <<"list index out of range">>))
            /\ UNCHANGED <<tool_call, function_name, result>>
       ELSE LET message == response.choices[1] IN
            IF HasToolCalls(message)
            THEN /\ tool_call' = FirstToolCall(message.tool_calls.items)
                 /\ function_name' = tool_call'.name
                 /\ pc' = "json_loads"
                 /\ UNCHANGED <<exc, result>>
            ELSE /\ result' = DirectReply(message)
                 /\ pc' = "return"
                 /\ UNCHANGED <<exc, tool_call, function_name>>
    /\ UNCHANGED <<query, calls, response, function_args, invoked, location, coords,
                   point_response, forecast, printed, tool_outcome,
                   tool_return, outcome>>

\* function_args = json.loads(tool_call.function.arguments)
parse_arguments ==
    /\ pc = "json_loads"
    /\ LET parsed == json_loads(tool_call.arguments) IN
       IF parsed.ok
       THEN /\ function_args' = parsed
            /\ pc' = "dispatch"
            /\ UNCHANGED exc
       ELSE /\ Raise(parsed.err)
            /\ UNCHANGED function_args
    /\ UNCHANGED <<query, calls, response, tool_call, function_name, invoked,
                   location, coords, point_response, forecast, printed, tool_outcome,
                   tool_return, result, outcome>>

\* A faulty variant of WeatherArguments: the two arguments change places.
WeatherArgumentsSwapped(city, state) == [city |-> state, state |-> city]

\* get_weather_forecast(city=function_args["city"], state=function_args["state"])
WeatherArguments(city, state) == [city |-> city, state |-> state]

\* The lookup function fn is entered with the keyword arguments kw.
Invoke(fn, kw) ==
    /\ invoked' = Append(invoked, [fn |-> fn, kwargs |-> kw])
    /\ tool_outcome' = "running"
    /\ pc' = fn
    /\ UNCHANGED <<exc, result>>

\* if function_name == ...: the arguments are subscripted left to right
\* before the call.
dispatch ==
    /\ pc = "dispatch"
    /\ IF function_name = "get_weather_forecast"
       THEN LET city == Subscript(function_args, "city")
                state == Subscript(function_args, "state") IN
            IF ~city.ok
            THEN Raise(city.err) /\ UNCHANGED <<invoked, tool_outcome, result>>
            ELSE IF ~state.ok
            THEN Raise(state.err) /\ UNCHANGED <<invoked, tool_outcome, result>>
            ELSE Invoke("get_weather_forecast",
                        WeatherArguments(city.val, state.val))
       ELSE IF function_name = "get_ip_address"
       THEN LET hostname == Subscript(function_args, "hostname") IN
            IF ~hostname.ok
            THEN Raise(hostname.err)
                 /\ UNCHANGED <<invoked, tool_outcome, result>>
            ELSE Invoke("get_ip_address", [hostname |-> hostname.val])
       ELSE /\ result' = Str(UnknownFunction(function_name))
            /\ pc' = "return"
            /\ UNCHANGED <<exc, invoked, tool_outcome>>
    /\ UNCHANGED <<query, calls, response, tool_call, function_name,
                   function_args, location, coords, point_response, forecast,
                   printed, tool_return, outcome>>

\* coords = get_coordinates(city, state); if not coords: return ...
get_coordinates ==
    /\ pc = "get_weather_forecast"
    /\ calls' = RecordCall(calls, "geocode",
                           <<kwargs.city, ", ", kwargs.state, ", USA">>)
    /\ \E loc \in GeocodeOutcomes :
         /\ location' = loc
         /\ IF loc.error # NoException
            THEN /\ ToolRaises(loc.error)
                 /\ UNCHANGED <<coords, tool_return, result>>
            ELSE /\ coords' = Coordinates(loc)
                 /\ IF coords'.t = "None"
                    THEN /\ ToolReturns(CouldNotFindCoordinates(kwargs.city,
                                                                kwargs.state))
                         /\ UNCHANGED exc
                    ELSE /\ pc' = "get_forecast"
                         /\ UNCHANGED <<exc, tool_outcome, tool_return,
                                        result>>
    /\ UNCHANGED <<query, response, tool_call, function_name, function_args,
                   invoked, point_response, forecast, printed, outcome>>

\* except Exception as e: print(...); return None
ForecastFails(e) ==
    /\ printed' = Append(printed, <<"Error getting forecast: ">> \o e.msg)
    /\ forecast' = NoneForecast
    /\ pc' = "forecast"

\* get_forecast, the grid-point request and the forecast URL in its answer
get_forecast_point ==
    /\ pc = "get_forecast"
    /\ calls' = RecordCall(calls, "points",
                           <<"https://api.weather.gov/points/",
                             ToString(coords.latitude), ",",
                             ToString(coords.longitude)>>)
    /\ \E p \in PointOutcomes :
         /\ point_response' = p
         /\ IF PointError(p) # NoException
            THEN ForecastFails(PointError(p))
            ELSE /\ pc' = "forecast_url"
                 /\ UNCHANGED <<forecast, printed>>
    /\ UNCHANGED <<query, response, tool_call, function_name, function_args,
                   invoked, location, coords, tool_outcome, tool_return, exc, result,
                   outcome>>

\* get_forecast, the forecast request
get_forecast_fetch ==
    /\ pc = "forecast_url"
    /\ calls' = RecordCall(calls, "forecast", <<ForecastUrl>>)
    /\ \E f \in ForecastOutcomes :
         IF ForecastError(f) # NoException
         THEN ForecastFails(ForecastError(f))
         ELSE /\ forecast' = f.body
              /\ pc' = "forecast"
              /\ UNCHANGED printed
    /\ UNCHANGED <<query, response, tool_call, function_name, function_args,
                   invoked, location, coords, point_response, tool_outcome, tool_return,
                   exc, result, outcome>>

\* if not forecast: return ...; the periods are formatted and returned
format_forecast ==
    /\ pc = "forecast"
    /\ IF ~Truthy(forecast)
       THEN /\ ToolReturns(CouldNotGetForecast(kwargs.city, kwargs.state))
            /\ UNCHANGED exc
       ELSE LET text == FormatForecast(kwargs.city, kwargs.state, forecast) IN
            IF text.ok
            THEN ToolReturns(text.val) /\ UNCHANGED exc
            ELSE ToolRaises(text.err) /\ UNCHANGED <<tool_return, result>>
    /\ UNCHANGED <<query, calls, response, tool_call, function_name,
                   function_args, invoked, location, coords, point_response, forecast,
                   printed, outcome>>

\* get_ip_address: it catches what socket.gethostbyname raises
get_ip_address ==
    /\ pc = "get_ip_address"
    /\ calls' = RecordCall(calls, "dns", <<kwargs.hostname>>)
    /\ \E d \in DnsOutcomes :
         IF d.error = NoException
         THEN ToolReturns(<<"The IP address of ", kwargs.hostname, " is ",
                            d.ip_address>>)
         ELSE ToolReturns(<<"Error getting IP address for ", kwargs.hostname,
                            ": ">> \o d.error.msg)
    /\ UNCHANGED <<query, response, tool_call, function_name, function_args,
                   invoked, location, coords, point_response, forecast, printed, exc,
                   outcome>>

\* return result
return_result ==
    /\ pc = "return"
    /\ outcome' = "returned"
    /\ pc' = "done"
    /\ UNCHANGED <<query, calls, response, tool_call, function_name,
                   function_args, invoked, location, coords, point_response, forecast,
                   printed, tool_outcome, tool_return, exc, result>>

\* except Exception as e: return f"Error processing weather query: {e}"
except_handler ==
    /\ pc = "except"
    /\ IF Caught(exc)
       THEN /\ result' = Str(ErrorProcessing(exc))
            /\ outcome' = "returned"
       ELSE /\ outcome' = "raised"
            /\ UNCHANGED result
    /\ pc' = "done"
    /\ UNCHANGED <<query, calls, response, tool_call, function_name,
                   function_args, invoked, location, coords, point_response, forecast,
                   printed, tool_outcome, tool_return, exc>>

Next ==
    \/ openai_create
    \/ check_tool_calls
    \/ parse_arguments
    \/ dispatch
    \/ get_coordinates
    \/ get_forecast_point
    \/ get_forecast_fetch
    \/ format_forecast
    \/ get_ip_address
    \/ return_result
    \/ except_handler

Spec == Init /\ [][Next]_vars

-----------------------------------------------------------------------------
(* What the properties speak about *)

\* The message of the completion, once there is one.
HasMessage == response.received /\ Len(response.choices) > 0
message == response.choices[1]

\* The tool calls the model requested and the first of them.
requested == message.tool_calls.items
RequestsTool == HasMessage /\ Len(requested) > 0
first == requested[1]

\* What each payload says, read off the payload by hand: the payloads that
\* are not JSON, and the object each of the JSON objects denotes.
MalformedPayloads == {Truncated, EmptyText}
ObjectPayloads ==
    {SeattleWA, NowherevilleZZ, Localhost, CityOnly, StateOnly, EmptyObject}
Meaning(payload) ==
    CASE payload = SeattleWA -> [city |-> "Seattle", state |-> "WA"]
      [] payload = NowherevilleZZ -> [city |-> "Nowhereville", state |-> "ZZ"]
      [] payload = Localhost -> [hostname |-> "localhost"]
      [] payload = CityOnly -> [city |-> "Seattle"]
      [] payload = StateOnly -> [state |-> "WA"]
      [] payload = EmptyObject -> EmptyDict

Supplies(payload, key) ==
    payload \in ObjectPayloads /\ key \in DOMAIN Meaning(payload)

RegisteredNames == {TOOLS[i].name : i \in DOMAIN TOOLS}
Required(name) ==
    UNION {{TOOLS[i].required[j] : j \in DOMAIN TOOLS[i].required} :
           i \in {i \in DOMAIN TOOLS : TOOLS[i].name = name}}

\* The call names a registered tool and its payload is JSON that lacks a
\* required parameter of that tool.
LacksRequired(call) ==
    /\ call.name \in RegisteredNames
    /\ call.arguments \notin MalformedPayloads
    /\ \E key \in Required(call.name) : ~Supplies(call.arguments, key)

\* The call names a registered tool and its payload is a JSON object with
\* every required parameter of that tool.
Complete(call) ==
    /\ call.name \in RegisteredNames
    /\ \A key \in Required(call.name) : Supplies(call.arguments, key)

ErrorPrefix == "Error processing weather query: "
IsErrorResult ==
    result.t = "str" /\ Len(result.v) >= 1 /\ result.v[1] = ErrorPrefix

Count(svc) == Cardinality({i \in 1..Len(calls) : calls[i].svc = svc})

Finished == pc = "done"

-----------------------------------------------------------------------------
(* Properties *)

\* C1: when the model's message carries no tool call (tool_calls is None or
\* empty), once the dispatcher has looked at it the result is
\* message.content itself, None and "" included, no lookup function has been
\* called, and the call returns.
C1_DirectReplyVerbatim ==
    (HasMessage /\ Len(requested) = 0 /\ pc # "tool_calls") =>
        /\ result = message.content
        /\ invoked = <<>>
        /\ tool_outcome = "not called"
        /\ pc \in {"return", "done"}
        /\ Finished => outcome = "returned"

\* C1 happens: a null reply with an empty tool_calls list has been returned.
C1_Witness ==
    /\ Finished
    /\ HasMessage
    /\ ~message.tool_calls.none
    /\ Len(requested) = 0
    /\ message.content = None
    /\ result = None

\* C4: at most one lookup function is called; the one called is the one the
\* first tool call names, with the arguments of the first tool call, and an
\* unknown-function result names the first tool call.
C4_OnlyFirstToolCall ==
    /\ Len(invoked) <= 1
    /\ (RequestsTool /\ pc # "tool_calls") =>
           /\ tool_call = first
           /\ function_name = first.name
    /\ invoked # <<>> =>
           /\ RequestsTool
           /\ invoked[1].fn = first.name
           /\ \A key \in DOMAIN invoked[1].kwargs :
                  /\ Supplies(first.arguments, key)
                  /\ invoked[1].kwargs[key] = Meaning(first.arguments)[key]
    /\ (Finished /\ RequestsTool /\ ~IsErrorResult /\ invoked = <<>>) =>
           result = Str(<<"Unknown function: ", first.name>>)

\* C4 happens: the model asked for two different tools and one was called.
C4_Witness ==
    /\ Finished
    /\ RequestsTool
    /\ Len(requested) >= 2
    /\ requested[2].name \in RegisteredNames
    /\ requested[2].name # first.name
    /\ Complete(requested[2])
    /\ Len(invoked) = 1

\* C5: process_weather_query never raises; it ends by returning, and when an
\* exception reached it (from the model call, json.loads, the subscripts or
\* the lookup function) the result is "Error processing weather query: "
\* followed by the exception's text.
C5_NeverRaises ==
    /\ outcome # "raised"
    /\ Finished =>
           /\ outcome = "returned"
           /\ exc # NoException => result = Str(<<ErrorPrefix>> \o exc.msg)

\* C5 happens: the lookup function raised and the error string was returned.
C5_Witness ==
    /\ Finished
    /\ tool_outcome = "raised"
    /\ exc.type = "GeocoderTimedOut"
    /\ outcome = "returned"
    /\ IsErrorResult

\* C7: when the geocoder finds no match, get_weather_forecast returns
\* "Could not find coordinates for <city>, <state>" with the city and state
\* of the call, and neither the grid-point nor the forecast request is made.
C7_NoMatchNoForecastCall ==
    location.t = "None" =>
        /\ tool_outcome = "returned"
        /\ tool_return =
               Str(<<"Could not find coordinates for ",
                     Meaning(first.arguments).city, ", ",
                     Meaning(first.arguments).state>>)
        /\ result = tool_return
        /\ Count("points") = 0
        /\ Count("forecast") = 0
        /\ pc \in {"return", "done"}

\* C7 happens: no match for Nowhereville, ZZ and the call has returned.
C7_Witness ==
    /\ Finished
    /\ location.t = "None"
    /\ first.arguments = NowherevilleZZ
    /\ Count("geocode") = 1


\* C2, as stated: whenever the tool call the dispatcher serves names a
\* registered tool, the call ends with the result being what that lookup
\* function returned for the arguments of the payload.
C2_ToolOutputAlways ==
    (Finished /\ RequestsTool /\ first.name \in RegisteredNames) =>
        /\ Len(invoked) = 1
        /\ invoked[1].fn = first.name
        /\ tool_outcome = "returned"
        /\ result = tool_return

\* C2, amended: when the first tool call names a registered tool and its
\* payload is a JSON object with every required parameter, that lookup
\* function is called once with the payload's values (city and state, or
\* hostname); the result is its return value, a str, if it returns, and the
\* "Error processing weather query: ..." string of its exception if it
\* raises.
C2_ToolOutputForCompleteCall ==
    (Finished /\ RequestsTool /\ Complete(first)) =>
        /\ invoked =
               <<[fn |-> first.name,
                  kwargs |-> [key \in Required(first.name) |->
                                  Meaning(first.arguments)[key]]]>>
        /\ \/ /\ tool_outcome = "returned"
              /\ tool_return.t = "str"
              /\ result = tool_return
              /\ exc = NoException
           \/ /\ tool_outcome = "raised"
              /\ exc # NoException
              /\ result = Str(<<ErrorPrefix>> \o exc.msg)

\* C2 happens: a forecast for Nowhereville, ZZ (state written first in the
\* payload) was rendered and returned.
C2_Witness ==
    /\ Finished
    /\ RequestsTool
    /\ first = [name |-> "get_weather_forecast", arguments |-> NowherevilleZZ]
    /\ tool_outcome = "returned"
    /\ Count("forecast") = 1
    /\ Truthy(forecast)
    /\ result = tool_return

\* C3, as stated: whenever the first tool call names a tool that is not
\* registered, whatever its payload, the result is "Unknown function: <name>"
\* and no lookup function is called.
C3_UnknownFunctionAlways ==
    (Finished /\ RequestsTool /\ first.name \notin RegisteredNames) =>
        /\ result = Str(<<"Unknown function: ", first.name>>)
        /\ invoked = <<>>

\* C3, amended: whenever the first tool call names a tool that is not
\* registered and its payload is well-formed JSON (of any shape), the result
\* is "Unknown function: <name>", no lookup function is called and no
\* external call but the model's is made.
C3_UnknownFunctionForJson ==
    (Finished /\ RequestsTool /\ first.name \notin RegisteredNames
        /\ first.arguments \notin MalformedPayloads) =>
        /\ result = Str(<<"Unknown function: ", first.name>>)
        /\ invoked = <<>>
        /\ tool_outcome = "not called"
        /\ Len(calls) = 1
        /\ outcome = "returned"

\* C3 happens: an unregistered name with a JSON array as payload.
C3_Witness ==
    /\ Finished
    /\ RequestsTool
    /\ first = [name |-> "get_time", arguments |-> ArrayPayload]
    /\ result = Str(<<"Unknown function: ", "get_time">>)

\* C6, as stated: get_weather_forecast, once called, never raises to its
\* caller, and what it returns is a str.
C6_WeatherForecastNeverRaises ==
    (invoked # <<>> /\ invoked[1].fn = "get_weather_forecast") =>
        /\ tool_outcome # "raised"
        /\ tool_outcome = "returned" => tool_return.t = "str"

\* C8: when the lookup succeeds on a payload of n periods, the text is the
\* header followed by min(3, n) blocks; the k-th block is that of the k-th
\* period of the payload: its name, its temperature and unit, its short
\* forecast, its wind speed and direction, and an empty line after it.
C8_FirstThreePeriods ==
    (tool_outcome = "returned" /\ forecast.t = "dict"
        /\ forecast.kind = "periods") =>
        LET n == Len(forecast.periods)
            m == IF n < 3 THEN n ELSE 3
            text == tool_return.v
            HeaderLen == 5
            BlockLen == 15
            block(k) == SubSeq(text, HeaderLen + BlockLen * (k - 1) + 1,
                               HeaderLen + BlockLen * k)
        IN  /\ Len(text) = HeaderLen + BlockLen * m
            /\ SubSeq(text, 1, HeaderLen) =
                   <<"Weather forecast for ", invoked[1].kwargs.city, ", ",
                     invoked[1].kwargs.state, ":\n\n">>
            /\ Cardinality({i \in 1..Len(text) : text[i] = "Conditions: "}) = m
            /\ \A k \in 1..m :
                   LET period == forecast.periods[k] IN
                   block(k) =
                       <<period.name, ":\n",
                         "Temperature: ", ToString(period.temperature),
                         DegreeSign, period.temperatureUnit, "\n",
                         "Conditions: ", period.shortForecast, "\n",
                         "Wind: ", period.windSpeed, " ",
                         period.windDirection, "\n\n">>

\* C8 happens: the upstream listed more than three periods and the forecast
\* was returned.
C8_Witness ==
    /\ Finished
    /\ tool_outcome = "returned"
    /\ forecast.t = "dict"
    /\ forecast.kind = "periods"
    /\ Len(forecast.periods) > 3
    /\ result = tool_return

\* C9: when the payload of the first tool call is not JSON, or the call
\* names a registered tool and the payload lacks one of its required
\* parameters, no lookup function is called, no external call is made
\* besides the one request to the model, and the result is an error string.
C9_RejectsBadArguments ==
    (RequestsTool /\ (first.arguments \in MalformedPayloads
                        \/ LacksRequired(first))) =>
        /\ invoked = <<>>
        /\ tool_outcome = "not called"
        /\ Len(calls) = 1
        /\ calls[1].svc = "openai"
        /\ Finished =>
               /\ outcome = "returned"
               /\ exc.type \in {"JSONDecodeError", "KeyError", "TypeError"}
               /\ IsErrorResult

\* C9 happens: get_weather_forecast was requested with a city and no state.
C9_Witness ==
    /\ Finished
    /\ RequestsTool
    /\ first = [name |-> "get_weather_forecast", arguments |-> CityOnly]
    /\ exc = KeyError("state")
    /\ IsErrorResult

\* C10: the model is asked exactly once, before anything else; geocoding,
\* grid point, forecast and DNS are each asked at most once; a grid-point
\* request follows a geocoding request and a forecast request follows a
\* grid-point request; after a failed grid-point request no forecast request
\* is made and the lookup returns "Could not get forecast for ...".
PointFailed ==
    /\ Count("points") >= 1
    /\ \/ point_response.error # NoException
       \/ point_response.status_code # 200
C10_NoRetriesOrderedCalls ==
    /\ pc = "start" => calls = <<>>
    /\ pc # "start" => (Count("openai") = 1 /\ calls[1].svc = "openai")
    /\ \A svc \in {"geocode", "points", "forecast", "dns"} : Count(svc) <= 1
    /\ \A j \in 1..Len(calls) :
           /\ calls[j].svc = "points" =>
                  \E i \in 1..(j - 1) : calls[i].svc = "geocode"
           /\ calls[j].svc = "forecast" =>
                  \E i \in 1..(j - 1) : calls[i].svc = "points"
    /\ PointFailed =>
           /\ Count("forecast") = 0
           /\ pc \in {"forecast", "return", "done"}
           /\ pc # "forecast" =>
                  /\ tool_outcome = "returned"
                  /\ result =
                         Str(<<"Could not get forecast for ",
                               invoked[1].kwargs.city, ", ",
                               invoked[1].kwargs.state>>)

\* C10 happens: the grid-point request was answered 404 and the call ended.
C10_Witness ==
    /\ Finished
    /\ PointFailed
    /\ point_response.status_code = 404
    /\ Len(calls) = 3

=============================================================================
